---- MODULE Spec2Model ----
(***************************************************************************)
(* Model of the OGC API - EDR profile generator (src/src/create_profile.py *)
(* and src/src/query_types.py).                                            *)
(*                                                                         *)
(* Strings.  A Python str is modelled as a sequence of fragments.  Every   *)
(* identifier, collection name, query type and format label is spelled     *)
(* character by character (each fragment is one character), so that        *)
(* replace, lower, title, split and the substring test act on it as they   *)
(* do in Python.  The fixed English wording of a statement, part or step   *)
(* is kept as one opaque fragment; the collection name substituted into    *)
(* it is spelled character by character.                                   *)
(***************************************************************************)
EXTENDS Integers, Sequences, FiniteSets, TLC

(***************************************************************************)
(* Bounds of the explored inputs.                                          *)
(***************************************************************************)
MaxCollections == 2
MaxQueryTypes == 2
MaxFormats == 2
MaxFilters == 2
MaxRequirements == 2

(***************************************************************************)
(* String primitives.                                                      *)
(***************************************************************************)
LowerCase ==
  <<"a","b","c","d","e","f","g","h","i","j","k","l","m",
    "n","o","p","q","r","s","t","u","v","w","x","y","z">>

UpperCase ==
  <<"A","B","C","D","E","F","G","H","I","J","K","L","M",
    "N","O","P","Q","R","S","T","U","V","W","X","Y","Z">>

IsLower(c) == \E i \in 1..26 : LowerCase[i] = c

IsUpper(c) == \E i \in 1..26 : UpperCase[i] = c

IsCased(c) == IsLower(c) \/ IsUpper(c)

LowerChar(c) ==
  IF IsUpper(c) THEN LowerCase[CHOOSE i \in 1..26 : UpperCase[i] = c] ELSE c

UpperChar(c) ==
  IF IsLower(c) THEN UpperCase[CHOOSE i \in 1..26 : LowerCase[i] = c] ELSE c

\* str.lower()
Lower(s) == [i \in 1..Len(s) |-> LowerChar(s[i])]

\* str.title(): a cased character is upper-cased when it follows an uncased
\* character (or starts the string) and lower-cased otherwise.
Title(s) ==
  [i \in 1..Len(s) |->
     IF i = 1 \/ ~IsCased(s[i-1]) THEN UpperChar(s[i]) ELSE LowerChar(s[i])]

\* str.replace(old, new) for a one-character old and a one-character new
Replace(s, old, new) == [i \in 1..Len(s) |-> IF s[i] = old THEN new ELSE s[i]]

\* str.replace(old, '') for a one-character old
Remove(s, old) == SelectSeq(s, LAMBDA c : c # old)

\* name.replace('_', '-'), the form a collection name takes inside an id
Dash(s) == Replace(s, "_", "-")

\* positions at which sub occurs in s
Occurrences(s, sub) ==
  {i \in 1..(Len(s) - Len(sub) + 1) : SubSeq(s, i, i + Len(sub) - 1) = sub}

\* Python's  sub in s
Contains(s, sub) == Occurrences(s, sub) # {}

Min(S) == CHOOSE x \in S : \A y \in S : x <= y

\* s.split(sep)[0]
SplitFirst(s, sep) ==
  IF Contains(s, sep) THEN SubSeq(s, 1, Min(Occurrences(s, sep)) - 1) ELSE s

\* what follows the first occurrence of sep in s
AfterFirst(s, sep) ==
  SubSeq(s, Min(Occurrences(s, sep)) + Len(sep), Len(s))

\* s.split(sep)[1], defined when sep occurs in s: the text between the first
\* occurrence of sep and the next one (or the end of s)
SplitSecond(s, sep) == SplitFirst(AfterFirst(s, sep), sep)

\* flattening of a sequence of strings
RECURSIVE Concat(_)
Concat(ss) == IF ss = <<>> THEN <<>> ELSE Head(ss) \o Concat(Tail(ss))

\* sep.join(ss)
RECURSIVE Join(_, _)
Join(sep, ss) ==
  IF ss = <<>> THEN <<>>
  ELSE IF Len(ss) = 1 THEN Head(ss)
  ELSE Head(ss) \o sep \o Join(sep, Tail(ss))

\* all sequences over S of length at most n
SeqsUpTo(S, n) == UNION {[1..k -> S] : k \in 0..n}

\* str.replace(old, new) for a non-empty old of any length: occurrences are
\* replaced from left to right without overlap
RECURSIVE ReplaceAll(_, _, _)
ReplaceAll(s, old, new) ==
  IF Len(s) < Len(old) THEN s
  ELSE IF SubSeq(s, 1, Len(old)) = old
  THEN new \o ReplaceAll(SubSeq(s, Len(old) + 1, Len(s)), old, new)
  ELSE <<Head(s)>> \o ReplaceAll(Tail(s), old, new)

\* Path(p).name: the last component of p, trailing separators ignored
RECURSIVE PathName(_)
PathName(p) ==
  IF p = <<>> THEN <<>>
  ELSE IF p[Len(p)] = "/" THEN PathName(SubSeq(p, 1, Len(p) - 1))
  ELSE IF Occurrences(p, <<"/">>) = {} THEN p
  ELSE LET last == CHOOSE i \in Occurrences(p, <<"/">>) :
                     \A j \in Occurrences(p, <<"/">>) : j <= i
       IN SubSeq(p, last + 1, Len(p))

(***************************************************************************)
(* Template strings and str.format(collection_name=...).  A template is a  *)
(* sequence of fragments; CN stands for the replacement field              *)
(* {collection_name}, LB and RB for the escaped braces {{ and }}.          *)
(***************************************************************************)
CN == "{collection_name}"

LB == "{{"

RB == "}}"

FormatFragment(frag, collection_name) ==
  IF frag = CN THEN collection_name
  ELSE IF frag = LB THEN <<"{">>
  ELSE IF frag = RB THEN <<"}">>
  ELSE <<frag>>

\* template.format(collection_name=collection_name)
Format(template, collection_name) ==
  Concat([i \in 1..Len(template) |-> FormatFragment(template[i], collection_name)])

(***************************************************************************)
(* The rule tables of query_types.py.                                      *)
(***************************************************************************)
items == <<"i","t","e","m","s">>

position == <<"p","o","s","i","t","i","o","n">>

area == <<"a","r","e","a">>

cube == <<"c","u","b","e">>

trajectory == <<"t","r","a","j","e","c","t","o","r","y">>

corridor == <<"c","o","r","r","i","d","o","r">>

locations == <<"l","o","c","a","t","i","o","n","s">>

instances == <<"i","n","s","t","a","n","c","e","s">>

\* an access pattern no table registers
radius == <<"r","a","d","i","u","s">>

\* the keys of QUERY_TYPE_TEST_STEPS, in insertion (iteration) order
QueryTypeOrder ==
  <<items, position, area, cube, trajectory, corridor, locations, instances>>

QueryTypeKeys == {QueryTypeOrder[i] : i \in 1..Len(QueryTypeOrder)}

QUERY_TYPE_REQUIREMENTS ==
  [qt \in QueryTypeKeys |->
     CASE qt = items ->
          [statement |-> <<CN, " items query support">>,
           parts |-> <<
             <<"The service SHALL provide a /collections/", CN, "/items endpoint">>,
             <<"The Items query SHALL return GeoJSON FeatureCollection formatted data">>,
             <<"The Items query SHALL support GET method">>,
             <<"Each Feature SHALL contain the required properties defined in the profile">>,
             <<"The service SHALL provide a /collections/", CN, "/items/", LB, "featureId", RB, " endpoint for individual items">> >>]
       [] qt = position ->
          [statement |-> <<CN, " position query support">>,
           parts |-> <<
             <<"The service SHALL provide a /collections/", CN, "/position endpoint">>,
             <<"The Position query SHALL accept coords parameter with POINT geometry">>,
             <<"The Position query SHALL support datetime parameter">>,
             <<"The response SHALL return data for the specified position">> >>]
       [] qt = area ->
          [statement |-> <<CN, " area query support">>,
           parts |-> <<
             <<"The service SHALL provide a /collections/", CN, "/area endpoint">>,
             <<"The Area query SHALL accept coords parameter with POLYGON or MULTIPOLYGON geometry">>,
             <<"The Area query SHALL support datetime parameter">>,
             <<"The response SHALL return data within the specified area">> >>]
       [] qt = cube ->
          [statement |-> <<CN, " cube query support">>,
           parts |-> <<
             <<"The service SHALL provide a /collections/", CN, "/cube endpoint">>,
             <<"The Cube query SHALL accept bbox parameter">>,
             <<"The Cube query SHALL support datetime and z parameters">>,
             <<"The response SHALL return data within the specified cube">> >>]
       [] qt = trajectory ->
          [statement |-> <<CN, " trajectory query support">>,
           parts |-> <<
             <<"The service SHALL provide a /collections/", CN, "/trajectory endpoint">>,
             <<"The Trajectory query SHALL accept coords parameter with LINESTRING geometry">>,
             <<"The Trajectory query SHALL support datetime parameter">>,
             <<"The response SHALL return data along the specified trajectory">> >>]
       [] qt = corridor ->
          [statement |-> <<CN, " corridor query support">>,
           parts |-> <<
             <<"The service SHALL provide a /collections/", CN, "/corridor endpoint">>,
             <<"The Corridor query SHALL accept coords and corridor-width parameters">>,
             <<"The Corridor query SHALL support datetime parameter">>,
             <<"The response SHALL return data within the specified corridor">> >>]
       [] qt = locations ->
          [statement |-> <<CN, " locations query support">>,
           parts |-> <<
             <<"The service SHALL provide a /collections/", CN, "/locations endpoint">>,
             <<"The Locations query SHALL accept locationId parameter">>,
             <<"The Locations query SHALL support datetime parameter">>,
             <<"The response SHALL return data for the specified location">> >>]
       [] qt = instances ->
          [statement |-> <<CN, " instances query support">>,
           parts |-> <<
             <<"The service SHALL provide a /collections/", CN, "/instances endpoint">>,
             <<"The Instances endpoint SHALL list available time instances">>,
             <<"Each instance SHALL support the same query types as the collection">> >>]]

QUERY_TYPE_TEST_STEPS ==
  [qt \in QueryTypeKeys |->
     CASE qt = items ->
          <<
             <<"Send GET request to /collections/", CN, "/items">>,
             <<"Verify response is valid GeoJSON FeatureCollection">>,
             <<"Verify response contains required properties">>,
             <<"Send GET request to /collections/", CN, "/items/", LB, "featureId", RB>>,
             <<"Verify response is valid GeoJSON Feature">> >>
       [] qt = position ->
          <<
             <<"Send GET request to /collections/", CN, "/position with coords parameter">>,
             <<"Verify response contains data for the specified position">>,
             <<"Verify datetime parameter is supported">> >>
       [] qt = area ->
          <<
             <<"Send GET request to /collections/", CN, "/area with coords parameter">>,
             <<"Verify response contains data within the specified area">>,
             <<"Verify POLYGON and MULTIPOLYGON geometries are supported">> >>
       [] qt = cube ->
          <<
             <<"Send GET request to /collections/", CN, "/cube with bbox parameter">>,
             <<"Verify response contains data within the specified cube">>,
             <<"Verify datetime and z parameters are supported">> >>
       [] qt = trajectory ->
          <<
             <<"Send GET request to /collections/", CN, "/trajectory with coords parameter">>,
             <<"Verify response contains data along the trajectory">>,
             <<"Verify LINESTRING geometry is supported">> >>
       [] qt = corridor ->
          <<
             <<"Send GET request to /collections/", CN, "/corridor with coords and corridor-width parameters">>,
             <<"Verify response contains data within the corridor">>,
             <<"Verify datetime parameter is supported">> >>
       [] qt = locations ->
          <<
             <<"Send GET request to /collections/", CN, "/locations">>,
             <<"Verify response lists available locations">>,
             <<"Send GET request to /collections/", CN, "/locations/", LB, "locationId", RB>>,
             <<"Verify response contains data for the specified location">> >>
       [] qt = instances ->
          <<
             <<"Send GET request to /collections/", CN, "/instances">>,
             <<"Verify response lists available time instances">>,
             <<"Verify each instance supports the collection's query types">> >>]

geojson == <<"g","e","o","j","s","o","n">>

coveragejson == <<"c","o","v","e","r","a","g","e","j","s","o","n">>

csv == <<"c","s","v">>

netcdf == <<"n","e","t","c","d","f">>

grib == <<"g","r","i","b">>

grib2 == <<"g","r","i","b","2">>

zarr == <<"z","a","r","r">>

FormatKeys == {geojson, coveragejson, csv, netcdf, grib, grib2, zarr}

FORMAT_REQUIREMENTS ==
  [fmt \in FormatKeys |->
     CASE fmt = geojson ->
          <<
             <<"A format with the label json SHALL provide GeoJSON output">>,
             <<"The GeoJSON output SHALL include standard GeoJSON properties: type, features, geometry, properties, and id">>,
             <<"The GeoJSON output SHALL include pagination metadata: numberMatched, numberReturned, and links array">> >>
       [] fmt = coveragejson ->
          <<
             <<"A format with the label covjson SHALL provide CoverageJSON output conforming to the CoverageJSON specification">> >>
       [] fmt = csv ->
          <<
             <<"A format with the label csv SHALL provide CSV output with appropriate headers">> >>
       [] fmt = netcdf ->
          <<
             <<"A format with the label netcdf SHALL provide NetCDF output conforming to CF conventions">> >>
       [] fmt = grib ->
          <<
             <<"A format with the label grib SHALL provide GRIB2 output conforming to WMO GRIB2 specification">> >>
       [] fmt = grib2 ->
          <<
             <<"A format with the label grib SHALL provide GRIB2 output conforming to WMO GRIB2 specification">> >>
       [] fmt = zarr ->
          <<
             <<"A format with the label zarr SHALL provide Zarr output conforming to Zarr specification">> >>]

(***************************************************************************)
(* Requirement generation (create_profile.py, REQUIREMENT GENERATION       *)
(* LOGIC).  None stands for Python's None.                                 *)
(***************************************************************************)
None == [none |-> TRUE]

\* generate_query_type_requirement falling back to a generic requirement for
\* an unregistered query type instead of returning None
generate_query_type_requirement_Fallback(collection_name, query_type) ==
  LET req_id == <<"d","a","t","a","-","q","u","e","r","y","-">>
                  \o query_type \o <<"-">> \o Dash(collection_name)
  IN IF query_type \notin DOMAIN QUERY_TYPE_REQUIREMENTS
     THEN [id |-> req_id,
           statement |-> collection_name \o <<" ">> \o query_type
                           \o <<" query support">>,
           parts |-> << <<"The service SHALL provide a /collections/">>
                          \o collection_name \o <<"/">> \o query_type
                          \o <<" endpoint">> >>]
     ELSE LET template == QUERY_TYPE_REQUIREMENTS[query_type]
          IN [id |-> req_id,
              statement |-> Format(template.statement, collection_name),
              parts |-> [i \in 1..Len(template.parts) |->
                           Format(template.parts[i], collection_name)]]

generate_query_type_requirement(collection_name, query_type) ==
  IF query_type \notin DOMAIN QUERY_TYPE_REQUIREMENTS THEN None
  ELSE LET template == QUERY_TYPE_REQUIREMENTS[query_type]
       IN [id |-> <<"d","a","t","a","-","q","u","e","r","y","-">>
                    \o query_type \o <<"-">> \o Dash(collection_name),
           statement |-> Format(template.statement, collection_name),
           parts |-> [i \in 1..Len(template.parts) |->
                        Format(template.parts[i], collection_name)]]

\* the fallback of QUERY_TYPE_TEST_STEPS.get(query_type, [...])
DefaultQueryTypeSteps(query_type) ==
  << <<"Verify ">> \o query_type \o <<" query is implemented">>,
     <<"Test basic functionality">>,
     <<"Verify conformance">> >>

generate_query_type_test(collection_name, query_type, req_id) ==
  LET steps_template ==
        IF query_type \in DOMAIN QUERY_TYPE_TEST_STEPS
        THEN QUERY_TYPE_TEST_STEPS[query_type]
        ELSE DefaultQueryTypeSteps(query_type)
  IN [id |-> req_id,
      req_id |-> req_id,
      steps |-> [i \in 1..Len(steps_template) |->
                   Format(steps_template[i], collection_name)]]

\* FormatClauses looking the label up as typed, without lower-casing it
FormatClauses_CaseSensitive(fmt) ==
  IF fmt \in DOMAIN FORMAT_REQUIREMENTS
  THEN FORMAT_REQUIREMENTS[fmt]
  ELSE << <<"A format with the label ">> \o fmt \o <<" SHALL be supported">> >>

\* the clauses one format label contributes (the body of the for loop)
FormatClauses(fmt) ==
  LET fmt_lower == Lower(fmt)
  IN IF fmt_lower \in DOMAIN FORMAT_REQUIREMENTS
     THEN FORMAT_REQUIREMENTS[fmt_lower]
     ELSE << <<"A format with the label ">> \o fmt_lower
               \o <<" SHALL be supported">> >>

generate_format_requirement(collection_name, formats) ==
  [id |-> <<"o","u","t","p","u","t","-","f","o","r","m","a","t","-">>
            \o Dash(collection_name),
   statement |-> <<"Output format support for ">> \o collection_name,
   parts |-> << <<"Collection ">> \o collection_name
                  \o <<" SHALL support the following formats:">> >>
             \o Concat([i \in 1..Len(formats) |-> FormatClauses(formats[i])])]

\* the fixed first requirement
OpenapiRequirement ==
  [id |-> <<"o","p","e","n","a","p","i">>,
   statement |-> <<"OpenAPI specification">>,
   parts |-> << <<"The service SHALL provide an OpenAPI 3.0 specification">>,
                <<"The OpenAPI SHALL document all collection endpoints">>,
                <<"The OpenAPI SHALL include GeoJSON schemas">> >>]

\* the requirement appended per collection by the first loop
CollectionRequirement(coll) ==
  [id |-> <<"c","o","l","l","e","c","t","i","o","n","-">> \o Dash(coll.name),
   statement |-> coll.name \o <<" collection metadata">>,
   parts |-> << <<"The service SHALL provide a /collections/">> \o coll.name
                  \o <<" endpoint">>,
                <<"The endpoint SHALL return collection metadata including extent and available query types">>,
                <<"The response SHALL conform to OGC API - EDR collection schema">> >>]

\* the inner loop over coll['query_types']: a requirement is appended only
\* when generate_query_type_requirement returns one
RECURSIVE QueryTypeRequirementsOf(_, _)
QueryTypeRequirementsOf(name, query_types) ==
  IF query_types = <<>> THEN <<>>
  ELSE LET req == generate_query_type_requirement(name, Head(query_types))
       IN (IF req = None THEN <<>> ELSE <<req>>)
            \o QueryTypeRequirementsOf(name, Tail(query_types))

\* the requirement appended per collection when include_asyncapi
AsyncapiRequirement(coll) ==
  [id |-> <<"a","s","y","n","c","a","p","i","-">> \o Dash(coll.name),
   statement |-> <<"AsyncAPI specification and PubSub messaging for ">>
                   \o coll.name,
   parts |-> << <<"The service SHALL provide an AsyncAPI 3.0 specification">>,
                <<"The AsyncAPI SHALL define ">> \o coll.name
                  \o <<" notification channels">>,
                <<"The service SHALL support AMQP protocol">>,
                <<"The service SHALL publish messages to collections/">>
                  \o coll.name \o <<"/items/# channel">>,
                <<"Messages SHALL conform to the AsyncAPI schema">> >>]

\* FiltersRequirement naming only the first filter
FiltersRequirement_FirstOnly(filters) ==
  [id |-> <<"f","i","l","t","e","r","s">>,
   statement |-> <<"Filter support">>,
   parts |-> << <<"The service SHALL support subscription filters">>,
                <<"The service SHALL support filtering by ">> \o filters[1].name,
                <<"Filters SHALL be defined in x-ogc-subscription extension">> >>]

\* the single requirement appended when filters is non-empty
FiltersRequirement(filters) ==
  [id |-> <<"f","i","l","t","e","r","s">>,
   statement |-> <<"Filter support">>,
   parts |-> << <<"The service SHALL support subscription filters">>,
                <<"The service SHALL support filtering by ">>
                  \o Join(<<",", " ">>, [i \in 1..Len(filters) |-> filters[i].name]),
                <<"Filters SHALL be defined in x-ogc-subscription extension">> >>]

\* lines 511-521: one collection requirement per collection
CollectionRequirements(collections) ==
  [i \in 1..Len(collections) |-> CollectionRequirement(collections[i])]

\* lines 523-528: the query-type requirements, collection by collection
QueryTypeRequirements(collections) ==
  Concat([i \in 1..Len(collections) |->
            QueryTypeRequirementsOf(collections[i].name, collections[i].query_types)])

\* lines 530-533: one format requirement per collection
FormatRequirements(collections) ==
  [i \in 1..Len(collections) |->
     generate_format_requirement(collections[i].name, collections[i].formats)]

\* AsyncapiRequirements ignoring include_asyncapi
AsyncapiRequirements_Always(collections, include_asyncapi) ==
  [i \in 1..Len(collections) |-> AsyncapiRequirement(collections[i])]

\* lines 535-548: one event-API requirement per collection, when enabled
AsyncapiRequirements(collections, include_asyncapi) ==
  IF include_asyncapi
  THEN [i \in 1..Len(collections) |-> AsyncapiRequirement(collections[i])]
  ELSE <<>>

\* lines 550-560: the filters requirement, when filters is non-empty
FilterRequirements(filters) ==
  IF filters # <<>> THEN <<FiltersRequirement(filters)>> ELSE <<>>

\* generate_suggested_requirements with the format loop moved before the
\* query-type loop
generate_suggested_requirements_FormatsFirst(collections, include_asyncapi, filters) ==
  <<OpenapiRequirement>>
    \o CollectionRequirements(collections)
    \o FormatRequirements(collections)
    \o QueryTypeRequirements(collections)
    \o AsyncapiRequirements(collections, include_asyncapi)
    \o FilterRequirements(filters)

generate_suggested_requirements(collections, include_asyncapi, filters) ==
  <<OpenapiRequirement>>
    \o CollectionRequirements(collections)
    \o QueryTypeRequirements(collections)
    \o FormatRequirements(collections)
    \o AsyncapiRequirements(collections, include_asyncapi)
    \o FilterRequirements(filters)

(***************************************************************************)
(* The rule tables as objects of the process.  The generation functions    *)
(* look entries up with get, in and [] and iterate over keys(); the        *)
(* methods that change a list, extend and append, are called on lists the  *)
(* functions create themselves.                                            *)
(***************************************************************************)
RuleTables ==
  [QUERY_TYPE_REQUIREMENTS |-> QUERY_TYPE_REQUIREMENTS,
   QUERY_TYPE_TEST_STEPS |-> QUERY_TYPE_TEST_STEPS,
   FORMAT_REQUIREMENTS |-> FORMAT_REQUIREMENTS]

\* the positions in formats of the labels FORMAT_REQUIREMENTS registers
KnownFormatPositions(formats) ==
  {i \in 1..Len(formats) : Lower(formats[i]) \in FormatKeys}

\* the rule tables after generate_format_requirement, had format_parts been
\* bound to the table's list of the first registered label: the clauses of
\* the labels after it are added to that list
RuleTablesAfterFormats_Aliased(rule_tables, formats) ==
  IF KnownFormatPositions(formats) = {} THEN rule_tables
  ELSE LET first == Min(KnownFormatPositions(formats))
           key == Lower(formats[first])
       IN [rule_tables EXCEPT !.FORMAT_REQUIREMENTS[key] =
             @ \o Concat([i \in 1..(Len(formats) - first) |->
                            FormatClauses(formats[first + i])])]

\* the rule tables after generate_format_requirement(collection_name,
\* formats): format_parts is a list created at line 481, extend (line 486)
\* copies the elements of the table's list into it and append (line 488)
\* adds to it, so no list of a table changes
RuleTablesAfterFormats(rule_tables, formats) == rule_tables

\* the rule tables after generate_suggested_requirements: the calls of
\* generate_format_requirement, one per collection in order (lines 531-534);
\* generate_query_type_requirement builds its parts by a list comprehension
\* (line 460)
RECURSIVE RuleTablesAfterRequirements(_, _)
RuleTablesAfterRequirements(rule_tables, collections) ==
  IF collections = << >> THEN rule_tables
  ELSE RuleTablesAfterRequirements(
         RuleTablesAfterFormats(rule_tables, Head(collections).formats),
         Tail(collections))

(***************************************************************************)
(* Test generation (generate_suggested_tests).                             *)
(***************************************************************************)
test_template_keys ==
  { <<"o","p","e","n","a","p","i">>,
    <<"a","s","y","n","c","a","p","i">>,
    <<"f","i","l","t","e","r","s">> }

test_templates ==
  [k \in test_template_keys |->
     CASE k = <<"o","p","e","n","a","p","i">> ->
          << <<"Send GET request to /openapi">>,
             <<"Verify response is valid OpenAPI 3.0 document">>,
             <<"Verify all collection endpoints are documented">>,
             <<"Verify GeoJSON schemas are defined">> >>
       [] k = <<"a","s","y","n","c","a","p","i">> ->
          << <<"Send GET request to /asyncapi.yaml">>,
             <<"Verify response is valid AsyncAPI 3.0 document">>,
             <<"Verify channels are defined for notifications">>,
             <<"Verify AMQP server is configured">>,
             <<"Connect to AMQP broker">>,
             <<"Subscribe to notification channel">>,
             <<"Verify messages are received">>,
             <<"Verify messages conform to AsyncAPI schema">> >>
       [] k = <<"f","i","l","t","e","r","s">> ->
          << <<"Verify x-ogc-subscription extension exists in AsyncAPI">>,
             <<"Verify all filters are documented">>,
             <<"Create subscription with filter">>,
             <<"Verify only matching messages are received">> >>]

\* f"data-query-{qt}-"
QueryPrefix(qt) ==
  <<"d","a","t","a","-","q","u","e","r","y","-">> \o qt \o <<"-">>

\* the positions in QueryTypeOrder of the query types whose prefix the id contains
MatchingQueryTypes(id) ==
  {k \in 1..Len(QueryTypeOrder) : Contains(id, QueryPrefix(QueryTypeOrder[k]))}

\* the query type at which the for loop over QUERY_TYPE_TEST_STEPS.keys()
\* breaks: the first key, in table order, whose prefix occurs in the id
MatchedQueryType(id) == QueryTypeOrder[Min(MatchingQueryTypes(id))]

\* req['id'].split(f"data-query-{qt}-")[1].replace('-', '_')
ExtractCollectionName(id, qt) == Replace(SplitSecond(id, QueryPrefix(qt)), "-", "_")

\* the else branch of the for loop: fixed template or three generic steps
FallbackTest(id) ==
  LET base_id == IF Contains(id, <<"-">>) THEN SplitFirst(id, <<"-">>) ELSE id
  IN [id |-> id,
      req_id |-> id,
      steps |-> IF base_id \in DOMAIN test_templates
                THEN test_templates[base_id]
                ELSE << <<"Verify requirement ">> \o id \o <<" is implemented">>,
                        <<"Test basic functionality">>,
                        <<"Verify conformance">> >>]

\* TestsAppendedFor without the break: one test per matching query type
TestsAppendedFor_NoBreak(req) ==
  IF MatchingQueryTypes(req.id) # {}
  THEN LET matched == SelectSeq(QueryTypeOrder,
                                LAMBDA qt : Contains(req.id, QueryPrefix(qt)))
       IN [k \in 1..Len(matched) |->
             generate_query_type_test(ExtractCollectionName(req.id, matched[k]),
                                      matched[k], req.id)]
  ELSE <<FallbackTest(req.id)>>

\* the body of the loop over requirements, as the tests it appends for req:
\* the inner for loop appends one test and breaks at the first matching query
\* type; its else clause runs only when no query type matched
TestsAppendedFor(req) ==
  IF MatchingQueryTypes(req.id) # {}
  THEN LET qt == MatchedQueryType(req.id)
       IN <<generate_query_type_test(ExtractCollectionName(req.id, qt), qt, req.id)>>
  ELSE <<FallbackTest(req.id)>>

generate_suggested_tests(requirements) ==
  Concat([i \in 1..Len(requirements) |-> TestsAppendedFor(requirements[i])])

(***************************************************************************)
(* The requirement, test and class documents (lines 120-191).  base_name   *)
(* is base.name, the last component of the profile directory.  Each        *)
(* document is an entry keyed by the file it is written to.                *)
(***************************************************************************)
File(kind, id) == [kind |-> kind, id |-> id]

core == <<"c","o","r","e">>

\* f"req_{base.name}_{req_id}".replace('/', '_')
RequirementAnchor(base_name, req_id) ==
  Replace(<<"r","e","q","_">> \o base_name \o <<"_">> \o req_id, "/", "_")

create_requirement(base_name, req_id, statement, parts) ==
  [key |-> File("requirement", req_id),
   anchor |-> RequirementAnchor(base_name, req_id),
   identifier |-> <<"/req/">> \o base_name \o <<"/">> \o req_id,
   statement |-> statement,
   parts |-> parts]

\* f"ats_{base.name}_{test_id}".replace('/', '_')
AbstractTestAnchor(base_name, test_id) ==
  Replace(<<"a","t","s","_">> \o base_name \o <<"_">> \o test_id, "/", "_")

create_abstract_test(base_name, test_id, req_id, steps) ==
  [key |-> File("abstract_test", test_id),
   anchor |-> AbstractTestAnchor(base_name, test_id),
   identifier |-> <<"/conf/">> \o base_name \o <<"/">> \o test_id,
   target |-> <<"/req/">> \o base_name \o <<"/">> \o req_id,
   purpose |-> <<"Validate that ">> \o Replace(test_id, "-", " ")
                 \o <<" requirement is correctly implemented.">>,
   steps |-> steps]

\* f"req_class_{base.name}_{class_name}".replace('-', '_')
RequirementsClassAnchor(base_name, class_name) ==
  Replace(<<"r","e","q","_","c","l","a","s","s","_">> \o base_name \o <<"_">> \o class_name, "-", "_")

\* create_requirements_class listing the requirements last to first
create_requirements_class_Reversed(base_name, class_name, requirements) ==
  [key |-> File("requirements_class", class_name),
   anchor |-> RequirementsClassAnchor(base_name, class_name),
   target_type |-> Title(Replace(base_name, "_", " ")) \o <<" Profile Standard">>,
   members |-> [i \in 1..Len(requirements) |->
                  <<"/req/">> \o base_name \o <<"/">>
                    \o requirements[Len(requirements) + 1 - i].id]]

create_requirements_class(base_name, class_name, requirements) ==
  [key |-> File("requirements_class", class_name),
   anchor |-> RequirementsClassAnchor(base_name, class_name),
   target_type |-> Title(Replace(base_name, "_", " ")) \o <<" Profile Standard">>,
   members |-> [i \in 1..Len(requirements) |->
                  <<"/req/">> \o base_name \o <<"/">> \o requirements[i].id]]

\* f"ats_class-{base.name}_{class_name}".replace('-', '_')
\*                                     .replace('_class_', '_class-')
ConformanceClassAnchor(base_name, class_name) ==
  ReplaceAll(Replace(<<"a","t","s","_","c","l","a","s","s","-">> \o base_name \o <<"_">> \o class_name, "-", "_"),
             <<"_","c","l","a","s","s","_">>, <<"_","c","l","a","s","s","-">>)

create_conformance_class(base_name, class_name, tests) ==
  [key |-> File("conformance_class", class_name),
   anchor |-> ConformanceClassAnchor(base_name, class_name),
   members |-> [i \in 1..Len(tests) |->
                  <<"/conf/">> \o base_name \o <<"/">> \o tests[i].id]]

(***************************************************************************)
(* HTTP API description (create_openapi).  paths is the dict of path items *)
(* as the set of its keys with, per key, the parameters of its get         *)
(* operation; schemas is the dict of schema entries.  A later assignment   *)
(* to an existing key overwrites it.                                       *)
(***************************************************************************)
Param(name, in, required) == [name |-> name, in |-> in, required |-> required]

\* QueryTypePaths where locations gets the generic endpoint
QueryTypePaths_LocationsGeneric(collection_name, qt) ==
  LET prefix == <<"/collections/">> \o collection_name
  IN IF qt = items
     THEN << [key |-> prefix \o <<"/items">>,
              parameters |-> << Param("datetime", "query", FALSE),
                                Param("bbox", "query", FALSE) >>],
             [key |-> prefix \o <<"/items/", "{featureId}">>,
              parameters |-> << Param("featureId", "path", TRUE) >>] >>
     ELSE << [key |-> prefix \o <<"/">> \o qt,
              parameters |-> << Param("coords", "query", TRUE),
                                Param("datetime", "query", FALSE) >>] >>

\* the path items one query type adds for a collection (lines 217-265)
QueryTypePaths(collection_name, qt) ==
  LET prefix == <<"/collections/">> \o collection_name
  IN IF qt = items
     THEN << [key |-> prefix \o <<"/items">>,
              parameters |-> << Param("datetime", "query", FALSE),
                                Param("bbox", "query", FALSE) >>],
             [key |-> prefix \o <<"/items/", "{featureId}">>,
              parameters |-> << Param("featureId", "path", TRUE) >>] >>
     ELSE IF qt = locations
     THEN << [key |-> prefix \o <<"/locations">>,
              parameters |-> << >>],
             [key |-> prefix \o <<"/locations/", "{locationId}">>,
              parameters |-> << Param("locationId", "path", TRUE),
                                Param("datetime", "query", FALSE) >>] >>
     ELSE << [key |-> prefix \o <<"/">> \o qt,
              parameters |-> << Param("coords", "query", TRUE),
                                Param("datetime", "query", FALSE) >>] >>

\* CollectionPaths without the collection metadata path
CollectionPaths_NoMetadata(coll) ==
  Concat([j \in 1..Len(coll.query_types) |->
            QueryTypePaths(coll.name, coll.query_types[j])])

\* the path items written for one collection, in assignment order
CollectionPaths(coll) ==
  << [key |-> <<"/collections/">> \o coll.name, parameters |-> << >>] >>
    \o Concat([j \in 1..Len(coll.query_types) |->
                 QueryTypePaths(coll.name, coll.query_types[j])])

\* f"{collection_name.title().replace('_', '')}Feature"
SchemaKey(collection_name) == Remove(Title(collection_name), "_") \o <<"Feature">>

\* the schema entry built for one collection (lines 267-285)
FeatureSchema(coll, properties, include_asyncapi) ==
  [key |-> SchemaKey(coll.name),
   properties |-> [p \in {properties[i] : i \in 1..Len(properties)} |->
                     [type |-> "string"]],
   pubsub |-> IF include_asyncapi
              THEN [channel |-> coll.name \o <<"_notifications">>]
              ELSE None]

\* dict assignment d[e.key] = e for every entry of a sequence, in order: the
\* resulting dict as a function from the keys to the entry assigned last
DictOf(entries) ==
  LET keys == {entries[i].key : i \in 1..Len(entries)}
  IN [k \in keys |->
        entries[CHOOSE i \in 1..Len(entries) :
                  /\ entries[i].key = k
                  /\ \A j \in (i+1)..Len(entries) : entries[j].key # k]]

\* the files of a directory after writing the entries in order: a file
\* written again is overwritten
WriteAll(files, entries) ==
  LET new == DictOf(entries)
  IN [k \in DOMAIN files \cup DOMAIN new |->
        IF k \in DOMAIN new THEN new[k] ELSE files[k]]

\* no document written yet
NoDocuments == [k \in {} |-> None]

\* create_openapi with the paths of the first collection only
create_openapi_FirstCollectionOnly(collections, properties, include_asyncapi) ==
  [paths |-> DictOf(Concat([i \in 1..Min({1, Len(collections)}) |->
                              CollectionPaths(collections[i])])),
   schemas |-> DictOf([i \in 1..Len(collections) |->
                         FeatureSchema(collections[i], properties, include_asyncapi)])]

create_openapi(collections, properties, include_asyncapi) ==
  [paths |-> DictOf(Concat([i \in 1..Len(collections) |->
                              CollectionPaths(collections[i])])),
   schemas |-> DictOf([i \in 1..Len(collections) |->
                         FeatureSchema(collections[i], properties, include_asyncapi)])]

(***************************************************************************)
(* create_asyncapi (lines 307-380).  channels, operations and messages are *)
(* dicts filled by one assignment each per collection; a reference is the  *)
(* string written under "$ref".                                            *)
(***************************************************************************)
\* f"{collection_name}_notifications"
ChannelKey(collection_name) == collection_name \o <<"_notifications">>

\* f"{collection_name.title().replace('_', '')}Observation"
MessageKey(collection_name) ==
  Remove(Title(collection_name), "_") \o <<"Observation">>

\* f"receive{collection_name.title().replace('_', '')}Update"
OperationKey(collection_name) ==
  <<"receive">> \o Remove(Title(collection_name), "_") \o <<"Update">>

\* the channel assigned for one collection (lines 315-332)
Channel(coll, filters) ==
  [key |-> ChannelKey(coll.name),
   address |-> <<"collections/">> \o coll.name \o <<"/items/#">>,
   description |-> Title(Replace(coll.name, "_", " "))
                     \o <<" observation notifications">>,
   filters |-> [i \in 1..Len(filters) |->
                  [name |-> filters[i].name,
                   description |-> filters[i].description,
                   schema |-> [type |-> filters[i].type]]],
   messages |-> [key |-> coll.name \o <<"Update">>,
                 ref |-> <<"#/components/messages/">> \o MessageKey(coll.name)]]

\* the operation assigned for one collection (lines 334-340)
Operation(coll) ==
  [key |-> OperationKey(coll.name),
   action |-> "receive",
   channel |-> <<"#/channels/">> \o ChannelKey(coll.name),
   messages |-> << <<"#/channels/">> \o ChannelKey(coll.name)
                     \o <<"/messages/">> \o coll.name \o <<"Update">> >>]

\* the message assigned for one collection (lines 342-358)
Message(coll) ==
  [key |-> MessageKey(coll.name),
   required |-> << "type", "properties" >>]

create_asyncapi(collections, filters) ==
  [description |-> <<"Real-time notifications for ">>
                     \o Join(<<", ">>, [i \in 1..Len(collections) |->
                                          collections[i].name]),
   channels |-> DictOf([i \in 1..Len(collections) |->
                          Channel(collections[i], filters)]),
   operations |-> DictOf([i \in 1..Len(collections) |->
                            Operation(collections[i])]),
   messages |-> DictOf([i \in 1..Len(collections) |->
                          Message(collections[i])])]

(***************************************************************************)
(* Inputs.                                                                 *)
(***************************************************************************)
water_gauge == <<"w","a","t","e","r","_","g","a","u","g","e">>

a_dash_b == <<"a","-","b">>

data_query_items_x ==
  <<"d","a","t","a","_","q","u","e","r","y","_","i","t","e","m","s","_","x">>

GeoJSON == <<"G","e","o","J","S","O","N">>

XML == <<"X","M","L">>

CollectionNames == {water_gauge, a_dash_b, data_query_items_x}

\* the names used where several collections are combined
StructureNames == {water_gauge, data_query_items_x}

QueryTypeInputs == {items, position, radius}

FormatInputs == {GeoJSON, csv, XML}

FilterInputs ==
  { [name |-> <<"station_id">>, description |-> <<"Station">>, type |-> <<"string">>],
    [name |-> <<"level">>, description |-> <<"Water level">>, type |-> <<"number">>] }

PropertyInputs == << <<"station_id">>, <<"value">> >>

RECURSIVE SumSeq(_)
SumSeq(ns) == IF ns = <<>> THEN 0 ELSE Head(ns) + SumSeq(Tail(ns))

\* the i-th of the consecutive pieces of flat whose lengths are lens
Piece(flat, lens, i) ==
  SubSeq(flat, SumSeq(SubSeq(lens, 1, i-1)) + 1, SumSeq(SubSeq(lens, 1, i)))

\* lists of at most MaxCollections collections (names may repeat) holding at
\* most MaxQueryTypes query-type entries in all (entries may repeat and may be
\* unregistered), each collection with the single format GeoJSON
StructureCollections ==
  UNION { UNION { UNION {
    { [i \in 1..k |-> [name |-> names[i],
                       query_types |-> Piece(flat, lens, i),
                       formats |-> <<GeoJSON>>]]
      : flat \in [1..SumSeq(lens) -> QueryTypeInputs] }
    : lens \in {l \in [1..k -> 0..MaxQueryTypes] : SumSeq(l) <= MaxQueryTypes} }
    : names \in [1..k -> StructureNames] }
    : k \in 0..MaxCollections }

station_filter == CHOOSE f \in FilterInputs : f.name = <<"station_id">>

\* Inputs that vary the collections: their number, names and query types;
\* the event API and a filter are either both present or both absent.
StructureConfigs ==
  { [collections |-> cs, include_asyncapi |-> async,
     filters |-> IF async THEN <<station_filter>> ELSE <<>>]
    : cs \in StructureCollections, async \in BOOLEAN }

\* Inputs that vary the name of one collection with one query type.
NameConfigs ==
  [collections : { <<[name |-> name, query_types |-> <<qt>>, formats |-> <<GeoJSON>>]>>
                   : name \in CollectionNames, qt \in QueryTypeInputs \cup {locations} },
   include_asyncapi : BOOLEAN,
   filters : {<<>>}]

\* a name that differs from water_gauge in letter case only
Water_Gauge == <<"W","a","t","e","r","_","G","a","u","g","e">>

\* Inputs with two items collections of different names.
SchemaConfigs ==
  [collections : { << [name |-> n1, query_types |-> <<items>>, formats |-> <<GeoJSON>>],
                      [name |-> n2, query_types |-> <<items>>, formats |-> <<GeoJSON>>] >>
                   : n1 \in {water_gauge}, n2 \in {Water_Gauge, a_dash_b} },
   include_asyncapi : BOOLEAN,
   filters : {<<>>}]

\* Inputs that vary the format labels of one collection.
FormatConfigs ==
  [collections : { <<[name |-> water_gauge, query_types |-> <<items>>, formats |-> fs]>>
                   : fs \in SeqsUpTo(FormatInputs, MaxFormats) },
   include_asyncapi : {FALSE},
   filters : {<<>>}]

\* Inputs that vary the filters, with and without the event API.
FilterConfigs ==
  [collections : { <<[name |-> water_gauge, query_types |-> <<items>>,
                      formats |-> <<GeoJSON>>]>> },
   include_asyncapi : BOOLEAN,
   filters : SeqsUpTo(FilterInputs, MaxFilters)]

Configs ==
  StructureConfigs \cup NameConfigs \cup FormatConfigs \cup FilterConfigs
    \cup SchemaConfigs

\* Hand-written requirements (get_interactive_config, lines 692-700): ids
\* the user may type, with and without dashes and query-type prefixes.
HandWrittenIds ==
  { <<"c","u","s","t","o","m">>,
    <<"a","s","y","n","c","a","p","i">>,
    <<"d","a","t","a","-","q","u","e","r","y","-","i","t","e","m","s","-","x">>,
    <<"d","a","t","a","-","q","u","e","r","y","-","a","r","e","a","-",
      "d","a","t","a","-","q","u","e","r","y","-","c","u","b","e","-","y">> }

HandWrittenRequirements ==
  { [id |-> id, statement |-> <<"Statement">>, parts |-> << <<"Part 1">> >>]
    : id \in HandWrittenIds }

\* Externally supplied tests of a loaded configuration: id and req_id are
\* whatever the file says.
LoadedTests ==
  { [id |-> <<"c","u","s","t","o","m">>, req_id |-> rid, steps |-> << <<"Step 1">> >>]
    : rid \in {<<"c","u","s","t","o","m">>, <<"o","t","h","e","r">>} }

\* Externally supplied requirements of a loaded configuration.
LoadedRequirements ==
  {r \in HandWrittenRequirements :
     r.id \in {<<"c","u","s","t","o","m">>, <<"a","s","y","n","c","a","p","i">>}}

\* a profile name whose last underscore-separated word is class
my_class == <<"m","y","_","c","l","a","s","s">>

\* a profile directory below another directory, with a dash in its name
out_a_dash_b == <<"o","u","t","/","a","-","b">>

\* Profile names typed at the first prompt.
ProfileNames == {water_gauge, my_class, out_a_dash_b}

\* a requirement of a configuration file without its parts
IncompleteRequirement ==
  [id |-> <<"o","t","h","e","r">>, statement |-> <<"Statement">>]

\* a test of a configuration file without its steps
IncompleteTest ==
  [id |-> <<"o","t","h","e","r">>, req_id |-> <<"o","t","h","e","r">>]

custom_requirement ==
  CHOOSE r \in LoadedRequirements : r.id = <<"c","u","s","t","o","m">>

custom_test ==
  CHOOSE t \in LoadedTests : t.id = t.req_id

other_test ==
  [id |-> <<"o","t","h","e","r">>, req_id |-> <<"o","t","h","e","r">>,
   steps |-> << <<"Step 1">> >>]

\* Configuration files with a field missing: the top-level key properties,
\* the parts of the second requirement, or the steps of the second test.
MalformedConfigs ==
  { [properties |-> None,
     requirements |-> <<custom_requirement>>,
     tests |-> <<custom_test>>],
    [properties |-> PropertyInputs,
     requirements |-> <<custom_requirement, IncompleteRequirement>>,
     tests |-> <<custom_test, other_test>>],
    [properties |-> PropertyInputs,
     requirements |-> <<custom_requirement>>,
     tests |-> <<custom_test, IncompleteTest>>] }

\* Configurations typed into main's prompts: those of StructureCollections
\* with at most one query-type entry.
MainCollections ==
  {cs \in StructureCollections :
     SumSeq([i \in 1..Len(cs) |-> Len(cs[i].query_types)]) <= 1}

(***************************************************************************)
(* State.                                                                  *)
(*   pc                   in Spec, the generation function applied last;   *)
(*                        in SpecMain, the position reached in main        *)
(*   source               where requirements come from: "suggested"        *)
(*                        (generate_suggested_requirements), "hand" (typed *)
(*                        in) or "loaded" (read by load_config)            *)
(*   use_suggested_tests  the answer to "Use suggested tests?"             *)
(*   collections, properties, include_asyncapi, filters, requirements,     *)
(*   tests                the configuration                                *)
(*   openapi              the HTTP API description built by create_openapi *)
(*   asyncapi             the event API description built by               *)
(*                        create_asyncapi                                  *)
(*   written              the artifacts written below the profile          *)
(*                        directory                                        *)
(*   profile_name         the profile name, which is the profile directory *)
(*   documents            the requirement, test and class documents        *)
(*                        written, by file                                 *)
(*   tables               the module-level rule tables of query_types.py   *)
(*                        as the process holds them                        *)
(*   second               the lists returned by a second run of            *)
(*                        generate_suggested_requirements and              *)
(*                        generate_suggested_tests in the same process     *)
(***************************************************************************)
VARIABLES pc, source, use_suggested_tests, collections, properties,
          include_asyncapi, filters, requirements, tests, openapi, asyncapi,
          written, profile_name, documents, second, tables

vars == <<pc, source, use_suggested_tests, collections, properties,
          include_asyncapi, filters, requirements, tests, openapi, asyncapi,
          written, profile_name, documents, second, tables>>

(***************************************************************************)
(* Spec: the generation functions applied to bounded inputs.               *)
(***************************************************************************)
\* a configuration is given; nothing has been generated
InitSuggested ==
  /\ pc = "start"
  /\ source = "suggested"
  /\ \E cfg \in Configs :
       /\ collections = cfg.collections
       /\ include_asyncapi = cfg.include_asyncapi
       /\ filters = cfg.filters
  /\ requirements = <<>>

\* a hand-written requirement list is given
InitHandWritten ==
  /\ pc = "requirements"
  /\ source = "hand"
  /\ collections = <<>>
  /\ include_asyncapi = FALSE
  /\ filters = <<>>
  /\ requirements \in SeqsUpTo(HandWrittenRequirements, MaxRequirements)

Init ==
  /\ InitSuggested \/ InitHandWritten
  /\ use_suggested_tests = TRUE
  /\ properties = PropertyInputs
  /\ tests = <<>>
  /\ openapi = None
  /\ asyncapi = None
  /\ written = {}
  /\ profile_name = water_gauge
  /\ documents = NoDocuments
  /\ second = None
  /\ tables = RuleTables

\* a list passed to a generation function, after a call that empties it
ArgumentAfterCall_Emptied(list) == << >>

\* a list passed to generate_suggested_requirements or
\* generate_suggested_tests, after the call: both iterate over their
\* arguments and build new lists and dicts, assigning to no element of an
\* argument (lines 497-611)
ArgumentAfterCall(list) == list

GenerateSuggestedRequirements ==
  /\ pc = "start"
  /\ requirements' = generate_suggested_requirements(collections, include_asyncapi, filters)
  /\ collections' = ArgumentAfterCall(collections)
  /\ filters' = ArgumentAfterCall(filters)
  /\ pc' = "requirements"
  /\ tables' = RuleTablesAfterRequirements(tables, collections)
  /\ UNCHANGED <<source, use_suggested_tests, properties, include_asyncapi,
                 tests, openapi, asyncapi, written, profile_name, documents,
                 second>>

GenerateSuggestedTests ==
  /\ pc = "requirements"
  /\ tests' = generate_suggested_tests(requirements)
  /\ requirements' = ArgumentAfterCall(requirements)
  /\ pc' = "tests"
  /\ UNCHANGED <<source, use_suggested_tests, collections, properties,
                 include_asyncapi, filters, openapi, asyncapi, written,
                 profile_name, documents, second, tables>>

CreateOpenapi ==
  /\ pc = "tests"
  /\ openapi' = create_openapi(collections, properties, include_asyncapi)
  /\ pc' = "openapi"
  /\ UNCHANGED <<source, use_suggested_tests, collections, properties,
                 include_asyncapi, filters, requirements, tests, asyncapi,
                 written, profile_name, documents, second, tables>>

CreateAsyncapi ==
  /\ pc = "openapi"
  /\ asyncapi' = create_asyncapi(collections, filters)
  /\ pc' = "asyncapi"
  /\ UNCHANGED <<source, use_suggested_tests, collections, properties,
                 include_asyncapi, filters, requirements, tests, openapi,
                 written, profile_name, documents, second, tables>>

\* generate_suggested_requirements and generate_suggested_tests called a
\* second time in the same process on the same configuration
SecondRun ==
  /\ pc = "asyncapi"
  /\ source = "suggested"
  /\ LET reqs == generate_suggested_requirements(collections, include_asyncapi,
                                                 filters)
     IN second' = [requirements |-> reqs,
                   tests |-> generate_suggested_tests(reqs)]
  /\ pc' = "second"
  /\ tables' = RuleTablesAfterRequirements(tables, collections)
  /\ UNCHANGED <<source, use_suggested_tests, collections, properties,
                 include_asyncapi, filters, requirements, tests, openapi,
                 asyncapi, written, profile_name, documents>>

Next ==
  \/ GenerateSuggestedRequirements
  \/ GenerateSuggestedTests
  \/ CreateOpenapi
  \/ CreateAsyncapi
  \/ SecondRun

Spec == Init /\ [][Next]_vars

(***************************************************************************)
(* SpecCalls: the generation functions called on one configuration any     *)
(* number of times in any order.  pc names the function called last.       *)
(***************************************************************************)
\* the configurations the calls are made on
CallConfigs == NameConfigs \cup FormatConfigs \cup FilterConfigs \cup SchemaConfigs

InitCalls ==
  /\ pc = "calls"
  /\ source = "suggested"
  /\ \E cfg \in CallConfigs :
       /\ collections = cfg.collections
       /\ include_asyncapi = cfg.include_asyncapi
       /\ filters = cfg.filters
  /\ requirements = <<>>
  /\ use_suggested_tests = TRUE
  /\ properties = PropertyInputs
  /\ tests = <<>>
  /\ openapi = None
  /\ asyncapi = None
  /\ written = {}
  /\ profile_name = water_gauge
  /\ documents = NoDocuments
  /\ second = None
  /\ tables = RuleTables

CallGenerateSuggestedRequirements ==
  /\ requirements' = generate_suggested_requirements(collections, include_asyncapi, filters)
  /\ collections' = ArgumentAfterCall(collections)
  /\ filters' = ArgumentAfterCall(filters)
  /\ tables' = RuleTablesAfterRequirements(tables, collections)
  /\ pc' = "generate_suggested_requirements"
  /\ UNCHANGED <<source, use_suggested_tests, properties, include_asyncapi,
                 tests, openapi, asyncapi, written, profile_name, documents,
                 second>>

CallGenerateSuggestedTests ==
  /\ tests' = generate_suggested_tests(requirements)
  /\ requirements' = ArgumentAfterCall(requirements)
  /\ pc' = "generate_suggested_tests"
  /\ UNCHANGED <<source, use_suggested_tests, collections, properties,
                 include_asyncapi, filters, openapi, asyncapi, written,
                 profile_name, documents, second, tables>>

CallCreateOpenapi ==
  /\ openapi' = create_openapi(collections, properties, include_asyncapi)
  /\ pc' = "create_openapi"
  /\ UNCHANGED <<source, use_suggested_tests, collections, properties,
                 include_asyncapi, filters, requirements, tests, asyncapi,
                 written, profile_name, documents, second, tables>>

CallCreateAsyncapi ==
  /\ asyncapi' = create_asyncapi(collections, filters)
  /\ pc' = "create_asyncapi"
  /\ UNCHANGED <<source, use_suggested_tests, collections, properties,
                 include_asyncapi, filters, requirements, tests, openapi,
                 written, profile_name, documents, second, tables>>

NextCalls ==
  \/ CallGenerateSuggestedRequirements
  \/ CallGenerateSuggestedTests
  \/ CallCreateOpenapi
  \/ CallCreateAsyncapi

SpecCalls == InitCalls /\ [][NextCalls]_vars

(***************************************************************************)
(* SpecMain: main(), one action per step.  In the initial state the        *)
(* variables hold what the user will answer (or what the file holds).      *)
(***************************************************************************)
\* answers to get_interactive_config taking the suggested requirements
InitMainSuggested ==
  /\ source = "suggested"
  /\ collections \in MainCollections
  /\ include_asyncapi \in BOOLEAN
  /\ filters \in {<<>>, <<station_filter>>}
  /\ requirements = <<>>
  /\ tests = <<>>
  /\ use_suggested_tests \in BOOLEAN

\* answers to get_interactive_config typing the requirements in
InitMainHand ==
  /\ source = "hand"
  /\ collections = <<[name |-> water_gauge, query_types |-> <<items>>,
                      formats |-> <<GeoJSON>>]>>
  /\ include_asyncapi \in BOOLEAN
  /\ filters = <<>>
  /\ requirements \in SeqsUpTo(HandWrittenRequirements, MaxRequirements)
  /\ tests = <<>>
  /\ use_suggested_tests \in BOOLEAN

\* the content of a configuration file
InitMainLoaded ==
  /\ source = "loaded"
  /\ collections = <<[name |-> water_gauge, query_types |-> <<items>>,
                      formats |-> <<GeoJSON>>]>>
  /\ include_asyncapi \in BOOLEAN
  /\ filters = <<>>
  /\ requirements \in SeqsUpTo(LoadedRequirements, MaxRequirements)
  /\ tests \in SeqsUpTo(LoadedTests, MaxRequirements)
  /\ use_suggested_tests = FALSE

\* the content of a configuration file with a field missing
InitMainMalformed ==
  /\ source = "loaded"
  /\ collections = <<[name |-> water_gauge, query_types |-> <<items>>,
                      formats |-> <<GeoJSON>>]>>
  /\ include_asyncapi = FALSE
  /\ filters = <<>>
  /\ use_suggested_tests = FALSE
  /\ \E cfg \in MalformedConfigs :
       /\ properties = cfg.properties
       /\ requirements = cfg.requirements
       /\ tests = cfg.tests

InitMain ==
  /\ pc = "main"
  /\ \/ (InitMainSuggested \/ InitMainHand \/ InitMainLoaded)
        /\ properties = PropertyInputs
     \/ InitMainMalformed
  /\ openapi = None
  /\ asyncapi = None
  /\ written = {}
  /\ profile_name \in ProfileNames
  /\ documents = NoDocuments
  /\ second = None
  /\ tables = RuleTables

\* a hand-entered test whose identifier is typed instead of taken from req
HandEnteredTest_TypedId(req) ==
  [id |-> <<"t","y","p","e","d">>, req_id |-> req.id, steps |-> << <<"Step 1">> >>]

\* the steps typed for one hand-entered test (lines 712-717)
HandEnteredTest(req) ==
  [id |-> req.id, req_id |-> req.id, steps |-> << <<"Step 1">> >>]

\* get_interactive_config (lines 619-728)
GetInteractiveConfig ==
  /\ pc = "main"
  /\ source \in {"suggested", "hand"}
  /\ LET fs == IF include_asyncapi THEN filters ELSE <<>>
         reqs == IF source = "suggested"
                 THEN generate_suggested_requirements(collections, include_asyncapi, fs)
                 ELSE requirements
     IN /\ filters' = fs
        /\ requirements' = reqs
        /\ tests' = IF use_suggested_tests
                    THEN generate_suggested_tests(reqs)
                    ELSE [i \in 1..Len(reqs) |-> HandEnteredTest(reqs[i])]
  /\ tables' = IF source = "suggested"
               THEN RuleTablesAfterRequirements(tables, collections)
               ELSE tables
  /\ pc' = "config"
  /\ UNCHANGED <<source, use_suggested_tests, collections, properties,
                 include_asyncapi, openapi, asyncapi, written, profile_name,
                 documents, second>>

\* load_config (lines 743-747)
LoadConfig ==
  /\ pc = "main"
  /\ source = "loaded"
  /\ pc' = "config"
  /\ UNCHANGED <<source, use_suggested_tests, collections, properties,
                 include_asyncapi, filters, requirements, tests, openapi,
                 asyncapi, written, profile_name,
                 documents, second, tables>>

\* one step of main that writes the artifacts ws and moves from pc = from to
\* pc = to
MainStep(from, to, ws) ==
  /\ pc = from
  /\ pc' = to
  /\ written' = written \cup ws
  /\ UNCHANGED <<source, use_suggested_tests, collections, properties,
                 include_asyncapi, filters, requirements, tests, profile_name,
                 second, tables>>

\* the fields main and the functions it calls read from a requirement and
\* from a test (lines 771 and 777)
RequirementFields == {"id", "statement", "parts"}

TestFields == {"id", "req_id", "steps"}

\* the first element of a list that lacks one of the fields, or one past the
\* end of the list when no element does
FirstIncomplete(list, fields) ==
  CHOOSE k \in 1..(Len(list) + 1) :
    /\ k <= Len(list) => ~(fields \subseteq DOMAIN list[k])
    /\ \A i \in 1..(k - 1) : fields \subseteq DOMAIN list[i]

\* the documents written for the first n requirements
RequirementDocuments(n) ==
  [i \in 1..n |->
     create_requirement(PathName(profile_name), requirements[i].id,
                        requirements[i].statement, requirements[i].parts)]

\* the documents written for the first n tests
AbstractTestDocuments(n) ==
  [i \in 1..n |->
     create_abstract_test(PathName(profile_name), tests[i].id,
                          tests[i].req_id, tests[i].steps)]

\* reading a top-level key the configuration lacks raises KeyError
\* (lines 751-758)
ReadConfigFails ==
  /\ properties = None
  /\ MainStep("config", "failed", {})
  /\ UNCHANGED <<openapi, asyncapi, documents>>

\* create_directory_structure (line 766)
CreateDirectoryStructure ==
  /\ properties # None
  /\ MainStep("config", "dirs", {})
  /\ UNCHANGED <<openapi, asyncapi, documents>>

\* create_requirement per requirement, then create_requirements_class
\* (lines 770-774)
CreateRequirements ==
  /\ FirstIncomplete(requirements, RequirementFields) > Len(requirements)
  /\ MainStep("dirs", "requirements_written",
              {File("requirement", requirements[i].id) : i \in 1..Len(requirements)}
                \cup {File("requirements_class", core)})
  /\ documents' =
       WriteAll(documents,
                RequirementDocuments(Len(requirements))
                  \o << create_requirements_class(PathName(profile_name), core,
                                                  requirements) >>)
  /\ UNCHANGED <<openapi, asyncapi>>

\* the loop of lines 770-772 reaches a requirement that lacks a field: the
\* files of the requirements before it are written, then KeyError is raised
CreateRequirementsFails ==
  LET k == FirstIncomplete(requirements, RequirementFields)
  IN /\ k <= Len(requirements)
     /\ MainStep("dirs", "failed",
                 {File("requirement", requirements[i].id) : i \in 1..(k - 1)})
     /\ documents' = WriteAll(documents, RequirementDocuments(k - 1))
     /\ UNCHANGED <<openapi, asyncapi>>

\* create_abstract_test per test, then create_conformance_class
\* (lines 776-780)
CreateAbstractTests ==
  /\ FirstIncomplete(tests, TestFields) > Len(tests)
  /\ MainStep("requirements_written", "tests_written",
              {File("abstract_test", tests[i].id) : i \in 1..Len(tests)}
                \cup {File("conformance_class", core)})
  /\ documents' =
       WriteAll(documents,
                AbstractTestDocuments(Len(tests))
                  \o << create_conformance_class(PathName(profile_name), core,
                                                 tests) >>)
  /\ UNCHANGED <<openapi, asyncapi>>

\* the loop of lines 776-778 reaches a test that lacks a field: the files of
\* the tests before it are written, then KeyError is raised
CreateAbstractTestsFails ==
  LET k == FirstIncomplete(tests, TestFields)
  IN /\ k <= Len(tests)
     /\ MainStep("requirements_written", "failed",
                 {File("abstract_test", tests[i].id) : i \in 1..(k - 1)})
     /\ documents' = WriteAll(documents, AbstractTestDocuments(k - 1))
     /\ UNCHANGED <<openapi, asyncapi>>

\* create_openapi (line 783)
MainCreateOpenapi ==
  /\ MainStep("tests_written", "openapi_written",
              {File("openapi", <<"openapi.yaml">>)})
  /\ openapi' = create_openapi(collections, properties, include_asyncapi)
  /\ UNCHANGED <<asyncapi, documents>>

\* create_asyncapi, when include_asyncapi (lines 786-788)
MainCreateAsyncapi ==
  /\ include_asyncapi
  /\ MainStep("openapi_written", "asyncapi_done",
              {File("asyncapi", <<"asyncapi.yaml">>)})
  /\ asyncapi' = create_asyncapi(collections, filters)
  /\ UNCHANGED <<openapi, documents>>

\* the else branch: asyncapi.yaml is skipped (lines 789-790)
MainSkipAsyncapi ==
  /\ ~include_asyncapi
  /\ MainStep("openapi_written", "asyncapi_done", {})
  /\ UNCHANGED <<openapi, asyncapi, documents>>

\* create_main_adoc and create_sections (lines 793-794)
CreateDocumentation ==
  /\ MainStep("asyncapi_done", "docs_written",
              {File("main_adoc", <<"profile.adoc">>), File("sections", <<"sections">>)})
  /\ UNCHANGED <<openapi, asyncapi, documents>>

\* create_supporting_files (line 798)
CreateSupportingFiles ==
  /\ MainStep("docs_written", "support_written",
              {File("supporting", <<"Makefile">>)})
  /\ UNCHANGED <<openapi, asyncapi, documents>>

\* save_config called before create_supporting_files
SaveConfig_BeforeSupport ==
  /\ MainStep("docs_written", "done",
              {File("config", <<"profile_config.yml">>)})
  /\ UNCHANGED <<openapi, asyncapi, documents>>

\* save_config (line 802)
SaveConfig ==
  /\ MainStep("support_written", "done",
              {File("config", <<"profile_config.yml">>)})
  /\ UNCHANGED <<openapi, asyncapi, documents>>

NextMain ==
  \/ GetInteractiveConfig
  \/ LoadConfig
  \/ ReadConfigFails
  \/ CreateDirectoryStructure
  \/ CreateRequirements
  \/ CreateRequirementsFails
  \/ CreateAbstractTests
  \/ CreateAbstractTestsFails
  \/ MainCreateOpenapi
  \/ MainCreateAsyncapi
  \/ MainSkipAsyncapi
  \/ CreateDocumentation
  \/ CreateSupportingFiles
  \/ SaveConfig

SpecMain == InitMain /\ [][NextMain]_vars

(***************************************************************************)
(* Properties.                                                             *)
(***************************************************************************)
IdsOf(rs) == [i \in 1..Len(rs) |-> rs[i].id]

StartsWith(s, prefix) ==
  Len(s) >= Len(prefix) /\ SubSeq(s, 1, Len(prefix)) = prefix

\* requirements holds the result of generate_suggested_requirements
RequirementsGenerated == source = "suggested" /\ pc \notin {"start", "main"}

\* tests holds the result of generate_suggested_tests(requirements)
TestsGenerated == pc \in {"tests", "openapi", "asyncapi", "second"}

\* C1: the tests returned by generate_suggested_tests pair off with the
\* requirements it was given: same length, and at every position the test's
\* id and req_id are the id of the requirement at that position.
C1_OneTestPerRequirement ==
  TestsGenerated =>
    /\ Len(tests) = Len(requirements)
    /\ \A i \in 1..Len(requirements) :
         /\ tests[i].id = requirements[i].id
         /\ tests[i].req_id = requirements[i].id

\* a hand-written list of two requirements, one of whose ids contains the
\* prefixes of two query types, has been given its tests
C1_Witness ==
  /\ pc = "tests"
  /\ source = "hand"
  /\ Len(requirements) = 2
  /\ \E i \in 1..2 : Cardinality(MatchingQueryTypes(requirements[i].id)) = 2

\* C2: no two requirements returned by generate_suggested_requirements have
\* the same id.
C2_UniqueRequirementIds ==
  RequirementsGenerated =>
    \A i, j \in 1..Len(requirements) :
      requirements[i].id = requirements[j].id => i = j

Recognized(qt) == qt \in DOMAIN QUERY_TYPE_REQUIREMENTS

\* the (collection, query type) pairs with a registered query type, in
\* collection order then query-type order
RECURSIVE RecognizedPairs(_)
RecognizedPairs(cs) ==
  IF cs = <<>> THEN <<>>
  ELSE LET qts == SelectSeq(Head(cs).query_types, Recognized)
       IN [j \in 1..Len(qts) |-> [name |-> Head(cs).name, qt |-> qts[j]]]
            \o RecognizedPairs(Tail(cs))

\* the id sequence the generation order prescribes
ExpectedIds(cs, async, fs) ==
  LET pairs == RecognizedPairs(cs)
  IN << <<"o","p","e","n","a","p","i">> >>
       \o [i \in 1..Len(cs) |->
             <<"c","o","l","l","e","c","t","i","o","n","-">> \o Dash(cs[i].name)]
       \o [k \in 1..Len(pairs) |->
             <<"d","a","t","a","-","q","u","e","r","y","-">> \o pairs[k].qt
               \o <<"-">> \o Dash(pairs[k].name)]
       \o [i \in 1..Len(cs) |->
             <<"o","u","t","p","u","t","-","f","o","r","m","a","t","-">>
               \o Dash(cs[i].name)]
       \o (IF async
           THEN [i \in 1..Len(cs) |->
                   <<"a","s","y","n","c","a","p","i","-">> \o Dash(cs[i].name)]
           ELSE <<>>)
       \o (IF fs # <<>> THEN << <<"f","i","l","t","e","r","s">> >> ELSE <<>>)

\* the configuration of the worked example: water_gauge, [items, position],
\* [GeoJSON], no event API, no filters
IsWaterGaugeExample ==
  /\ collections = <<[name |-> water_gauge, query_types |-> <<items, position>>,
                      formats |-> <<GeoJSON>>]>>
  /\ ~include_asyncapi
  /\ filters = <<>>

water_dash_gauge == <<"w","a","t","e","r","-","g","a","u","g","e">>

\* C3: the ids returned by generate_suggested_requirements are, in order,
\* openapi, the collection ids, the data-query ids of the registered query
\* types, the output-format ids, the asyncapi ids when enabled, and filters
\* when there are filters; for the worked example they are the five ids
\* openapi, collection-water-gauge, data-query-items-water-gauge,
\* data-query-position-water-gauge, output-format-water-gauge.
C3_GenerationOrder ==
  RequirementsGenerated =>
    /\ IdsOf(requirements) = ExpectedIds(collections, include_asyncapi, filters)
    /\ IsWaterGaugeExample =>
         IdsOf(requirements) =
           << <<"o","p","e","n","a","p","i">>,
              <<"c","o","l","l","e","c","t","i","o","n","-">> \o water_dash_gauge,
              <<"d","a","t","a","-","q","u","e","r","y","-","i","t","e","m","s","-">>
                \o water_dash_gauge,
              <<"d","a","t","a","-","q","u","e","r","y","-",
                "p","o","s","i","t","i","o","n","-">> \o water_dash_gauge,
              <<"o","u","t","p","u","t","-","f","o","r","m","a","t","-">>
                \o water_dash_gauge >>

\* the requirements of the worked example have been generated
C3_Witness == pc = "requirements" /\ source = "suggested" /\ IsWaterGaugeExample

\* the position in requirements of the requirement synthesized for the k-th
\* registered (collection, query type) pair
QueryPosition(k) == 1 + Len(collections) + k

\* steps were produced from the test-step template registered for qt: as many
\* steps, each ending with the wording that ends the template's step
UsesTemplate(steps, qt) ==
  LET template == QUERY_TYPE_TEST_STEPS[qt]
  IN /\ Len(steps) = Len(template)
     /\ \A j \in 1..Len(template) :
          LET wording == Format(template[j], <<>>)
          IN steps[j] # <<>> /\ steps[j][Len(steps[j])] = wording[Len(wording)]

\* C4: the test produced for the requirement data-query-{qt}-{dash(C)} of a
\* collection C and registered query type qt uses the test-step template
\* registered for that same qt, so it has as many steps as that template.
C4_TestUsesOwnTemplate ==
  (RequirementsGenerated /\ TestsGenerated) =>
    LET pairs == RecognizedPairs(collections)
    IN \A k \in 1..Len(pairs) :
         UsesTemplate(tests[QueryPosition(k)].steps, pairs[k].qt)

\* the collection name inside a sentence made of a wording, the name and a
\* wording (the first part of a query-type requirement, the first step of a
\* query-type test)
NameIn(sentence) == SubSeq(sentence, 2, Len(sentence) - 1)

\* C5: the collection name substituted into the steps of the test for
\* data-query-{qt}-{dash(C)} is C, the name in the paths of the paired
\* requirement's parts.
C5_CollectionNameRoundTrip ==
  (RequirementsGenerated /\ TestsGenerated) =>
    LET pairs == RecognizedPairs(collections)
    IN \A k \in 1..Len(pairs) :
         /\ NameIn(requirements[QueryPosition(k)].parts[1]) = pairs[k].name
         /\ NameIn(tests[QueryPosition(k)].steps[1]) = pairs[k].name

\* the collections without their unregistered query types
WithoutUnrecognized(cs) ==
  [i \in 1..Len(cs) |->
     [cs[i] EXCEPT !.query_types = SelectSeq(cs[i].query_types, Recognized)]]

\* C6: an unregistered query type is omitted without an error: the
\* requirements are exactly those of the configuration without the
\* unregistered entries, one per registered pair and none for the others,
\* and the tests synthesized from them are those of that configuration too.
C6_UnrecognizedOmitted ==
  RequirementsGenerated =>
    LET expected ==
          generate_suggested_requirements(WithoutUnrecognized(collections),
                                          include_asyncapi, filters)
    IN /\ requirements = expected
       /\ Len(requirements) =
            1 + 2 * Len(collections) + Len(RecognizedPairs(collections))
              + (IF include_asyncapi THEN Len(collections) ELSE 0)
              + (IF filters # <<>> THEN 1 ELSE 0)
       /\ TestsGenerated =>
            /\ tests = generate_suggested_tests(expected)
            /\ Len(tests) = Len(expected)

\* requirements and tests were synthesized for two collections, one of which
\* lists the unregistered query type radius
C6_Witness ==
  /\ pc = "tests"
  /\ source = "suggested"
  /\ Len(collections) = 2
  /\ \E i \in 1..2 : \E j \in 1..Len(collections[i].query_types) :
       collections[i].query_types[j] = radius

\* the position in requirements of the format requirement of collection i
FormatPosition(i) ==
  1 + Len(collections) + Len(RecognizedPairs(collections)) + i

OutputFormatPrefix == <<"o","u","t","p","u","t","-","f","o","r","m","a","t","-">>

FormatHeader(name) ==
  <<"Collection ">> \o name \o <<" SHALL support the following formats:">>

\* the clauses of a label L: its registered clauses when lower(L) is
\* registered, else one generic clause naming L as given
ClausesNamingLabel(L) ==
  IF Lower(L) \in DOMAIN FORMAT_REQUIREMENTS
  THEN FORMAT_REQUIREMENTS[Lower(L)]
  ELSE << <<"A format with the label ">> \o L \o <<" SHALL be supported">> >>

\* the same with the generic clause naming lower(L)
ClausesNamingLowerLabel(L) ==
  IF Lower(L) \in DOMAIN FORMAT_REQUIREMENTS
  THEN FORMAT_REQUIREMENTS[Lower(L)]
  ELSE << <<"A format with the label ">> \o Lower(L) \o <<" SHALL be supported">> >>

OutputFormatCount ==
  Len(SelectSeq(requirements, LAMBDA r : StartsWith(r.id, OutputFormatPrefix)))

\* C7 as stated: every collection has exactly one output-format requirement,
\* whose parts are the header followed, label by label, by the registered
\* clauses or by one generic clause naming the label L.
C7_GenericClauseNamesLabel ==
  RequirementsGenerated =>
    /\ OutputFormatCount = Len(collections)
    /\ \A i \in 1..Len(collections) :
         LET req == requirements[FormatPosition(i)]
             fs == collections[i].formats
         IN /\ req.id = OutputFormatPrefix \o Dash(collections[i].name)
            /\ req.parts = <<FormatHeader(collections[i].name)>>
                 \o Concat([j \in 1..Len(fs) |-> ClausesNamingLabel(fs[j])])

\* C7 amended: the generic clause names the lower-cased label.
C7_GenericClauseNamesLowerLabel ==
  RequirementsGenerated =>
    /\ OutputFormatCount = Len(collections)
    /\ \A i \in 1..Len(collections) :
         LET req == requirements[FormatPosition(i)]
             fs == collections[i].formats
         IN /\ req.id = OutputFormatPrefix \o Dash(collections[i].name)
            /\ req.parts = <<FormatHeader(collections[i].name)>>
                 \o Concat([j \in 1..Len(fs) |-> ClausesNamingLowerLabel(fs[j])])

\* the format requirement of a collection with a registered label in mixed
\* case followed by an unregistered label in upper case has been generated
C7_Witness ==
  /\ pc = "requirements"
  /\ source = "suggested"
  /\ Len(collections) = 1
  /\ collections[1].formats = <<GeoJSON, XML>>

AsyncapiPrefix == <<"a","s","y","n","c","a","p","i","-">>

AsyncapiFile == File("asyncapi", <<"asyncapi.yaml">>)

\* main is past the point where it decides on create_asyncapi
PastAsyncapi == pc \in {"asyncapi_done", "docs_written", "support_written", "done"}

\* C8: without include_asyncapi no requirement id starts with asyncapi- and
\* main never writes the event-API description; with include_asyncapi there
\* is one asyncapi-{dash(name)} requirement with 5 parts per collection, in
\* collection order, and main writes the event-API description.
C8_EventApiGating ==
  /\ RequirementsGenerated =>
       LET asyncReqs == SelectSeq(requirements,
                                  LAMBDA r : StartsWith(r.id, AsyncapiPrefix))
       IN IF include_asyncapi
          THEN /\ Len(asyncReqs) = Len(collections)
               /\ \A i \in 1..Len(collections) :
                    /\ asyncReqs[i].id = AsyncapiPrefix \o Dash(collections[i].name)
                    /\ Len(asyncReqs[i].parts) = 5
          ELSE asyncReqs = <<>>
  /\ AsyncapiFile \in written => include_asyncapi
  /\ (PastAsyncapi /\ include_asyncapi) => AsyncapiFile \in written

\* main has finished for two collections with the event API enabled
C8_Witness ==
  /\ pc = "done"
  /\ source = "suggested"
  /\ include_asyncapi
  /\ Len(collections) = 2
  /\ AsyncapiFile \in written

FiltersId == <<"f","i","l","t","e","r","s">>

\* C9: there is exactly one requirement with id filters when filters is
\* non-empty and none otherwise, whatever include_asyncapi; when present it
\* is the last requirement and its second part lists the filter names in
\* filters order.
C9_FiltersRequirement ==
  RequirementsGenerated =>
    LET n == Len(requirements)
        filterReqs == SelectSeq(requirements, LAMBDA r : r.id = FiltersId)
    IN /\ Len(filterReqs) = IF filters # <<>> THEN 1 ELSE 0
       /\ filters # <<>> =>
            /\ requirements[n].id = FiltersId
            /\ requirements[n].parts[2] =
                 <<"The service SHALL support filtering by ">>
                   \o Join(<<",", " ">>, [i \in 1..Len(filters) |-> filters[i].name])

\* the requirements of a configuration with two different filters and no
\* event API have been generated
C9_Witness ==
  /\ pc = "requirements"
  /\ source = "suggested"
  /\ ~include_asyncapi
  /\ Len(filters) = 2
  /\ filters[1] # filters[2]

\* a single collection whose query_types is [items]
IsItemsOnly == Len(collections) = 1 /\ collections[1].query_types = <<items>>

ItemsPath(name) == <<"/collections/">> \o name \o <<"/items">>

FeaturePath(name) == <<"/collections/">> \o name \o <<"/items/", "{featureId}">>

MetadataPath(name) == <<"/collections/">> \o name

\* C10 as stated: for a single collection with query_types [items] the HTTP
\* API description has exactly the two path items /collections/{name}/items
\* and /collections/{name}/items/{featureId}, and exactly one schema entry.
C10_TwoPathItems ==
  (pc = "openapi" /\ IsItemsOnly) =>
    /\ DOMAIN openapi.paths = { ItemsPath(collections[1].name),
                                FeaturePath(collections[1].name) }
    /\ Cardinality(DOMAIN openapi.paths) = 2
    /\ Cardinality(DOMAIN openapi.schemas) = 1

\* C10 amended: it has exactly three path items, the collection metadata
\* path /collections/{name} and the two items paths, and one schema entry.
C10_ThreePathItems ==
  (pc = "openapi" /\ IsItemsOnly) =>
    /\ DOMAIN openapi.paths = { MetadataPath(collections[1].name),
                                ItemsPath(collections[1].name),
                                FeaturePath(collections[1].name) }
    /\ Cardinality(DOMAIN openapi.paths) = 3
    /\ Cardinality(DOMAIN openapi.schemas) = 1

\* the HTTP API description of a single collection with [items] was built
C10_Witness == pc = "openapi" /\ IsItemsOnly

(***************************************************************************)
(* C11.                                                                    *)
(***************************************************************************)
LocationsPath(name) == <<"/collections/">> \o name \o <<"/locations">>

LocationPath(name) == <<"/collections/">> \o name \o <<"/locations/", "{locationId}">>

GenericPath(name, qt) == <<"/collections/">> \o name \o <<"/">> \o qt

\* the path keys C11 lists for one collection
ExpectedPathKeys(coll) ==
  {MetadataPath(coll.name)}
    \cup UNION { IF coll.query_types[j] = items
                 THEN {ItemsPath(coll.name), FeaturePath(coll.name)}
                 ELSE IF coll.query_types[j] = locations
                 THEN {LocationsPath(coll.name), LocationPath(coll.name)}
                 ELSE {GenericPath(coll.name, coll.query_types[j])}
                 : j \in 1..Len(coll.query_types) }

\* the collections with their formats emptied
WithoutFormats(cs) ==
  [i \in 1..Len(cs) |-> [cs[i] EXCEPT !.formats = <<>>]]

\* C11: the path keys of the HTTP API description are exactly, per
\* collection, the metadata path, the two items paths for items, the two
\* locations paths for locations and one generic path for any other query
\* type, registered or not, whose parameters are coords (query, required)
\* and datetime (query, not required); the description is the same whatever
\* the formats, the requirements and the tests are.
C11_PathKeys ==
  pc = "openapi" =>
    /\ DOMAIN openapi.paths =
         UNION {ExpectedPathKeys(collections[i]) : i \in 1..Len(collections)}
    /\ \A i \in 1..Len(collections) :
         \A j \in 1..Len(collections[i].query_types) :
           LET qt == collections[i].query_types[j]
           IN qt \notin {items, locations} =>
                openapi.paths[GenericPath(collections[i].name, qt)].parameters
                  = << Param("coords", "query", TRUE),
                       Param("datetime", "query", FALSE) >>
    /\ openapi = create_openapi(WithoutFormats(collections), properties,
                                include_asyncapi)

\* a description with the two locations paths was built for a collection
\* whose query_types is [locations]
C11_Witness ==
  /\ pc = "openapi"
  /\ Len(collections) = 1
  /\ collections[1].query_types = <<locations>>
  /\ LocationPath(collections[1].name) \in DOMAIN openapi.paths

(***************************************************************************)
(* C12.                                                                    *)
(***************************************************************************)
DistinctNames(cs) ==
  \A i, j \in 1..Len(cs) : i # j => cs[i].name # cs[j].name

\* C12: for collections with pairwise distinct names the HTTP API
\* description has as many schema entries as there are collections, and
\* the schema of each collection has exactly one field per declared
\* property, of type string.
C12_OneSchemaPerCollection ==
  (pc = "openapi" /\ DistinctNames(collections)) =>
    /\ Cardinality(DOMAIN openapi.schemas) = Len(collections)
    /\ \A i \in 1..Len(collections) :
         /\ SchemaKey(collections[i].name) \in DOMAIN openapi.schemas
         /\ LET schema == openapi.schemas[SchemaKey(collections[i].name)]
            IN /\ DOMAIN schema.properties =
                    {properties[k] : k \in 1..Len(properties)}
               /\ \A p \in DOMAIN schema.properties :
                    schema.properties[p] = [type |-> "string"]

(***************************************************************************)
(* C13.                                                                    *)
(***************************************************************************)
\* the operations of the event API description whose channel reference
\* names the channel of collection name
OperationsOn(name) ==
  {k \in DOMAIN asyncapi.operations :
     /\ asyncapi.operations[k].action = "receive"
     /\ asyncapi.operations[k].channel = <<"#/channels/">> \o ChannelKey(name)}

\* C13: in the event API description of collections with pairwise distinct
\* names every collection C has a channel C_notifications with address
\* collections/C/items/#, exactly one receive operation referring to that
\* channel and a message entry to which the channel's message reference
\* resolves; channels, operations and messages are as many as collections.
C13_ChannelOperationMessage ==
  (pc = "asyncapi" /\ DistinctNames(collections)) =>
    /\ \A i \in 1..Len(collections) :
         LET name == collections[i].name
         IN /\ ChannelKey(name) \in DOMAIN asyncapi.channels
            /\ asyncapi.channels[ChannelKey(name)].address
                 = <<"collections/">> \o name \o <<"/items/#">>
            /\ Cardinality(OperationsOn(name)) = 1
            /\ Head(asyncapi.channels[ChannelKey(name)].messages.ref)
                 = "#/components/messages/"
            /\ Tail(asyncapi.channels[ChannelKey(name)].messages.ref)
                 \in DOMAIN asyncapi.messages
    /\ Cardinality(DOMAIN asyncapi.channels) = Len(collections)
    /\ Cardinality(DOMAIN asyncapi.operations) = Len(collections)
    /\ Cardinality(DOMAIN asyncapi.messages) = Len(collections)

(***************************************************************************)
(* C14.                                                                    *)
(***************************************************************************)
RequirementsClassFile == File("requirements_class", core)

ConformanceClassFile == File("conformance_class", core)

\* the local id of a class member /req/{base.name}/{id} or
\* /conf/{base.name}/{id}
LocalId(member) ==
  SubSeq(member, Len(PathName(profile_name)) + 3, Len(member))

RequirementsWritten ==
  pc \in {"requirements_written", "tests_written", "openapi_written",
          "asyncapi_done", "docs_written", "support_written", "done"}

TestsWritten == RequirementsWritten /\ pc # "requirements_written"

TestsSynthesized == source \in {"suggested", "hand"} /\ use_suggested_tests

\* C14: the requirements class lists one member per requirement in the
\* order of the requirements list, the conformance class one member per
\* test in the order of the tests list, and when the tests are synthesized
\* from the requirements the k-th members of both have the same local id.
C14_ClassMembersInOrder ==
  /\ RequirementsWritten =>
       LET members == documents[RequirementsClassFile].members
       IN /\ Len(members) = Len(requirements)
          /\ \A k \in 1..Len(requirements) :
               /\ members[k] = <<"/req/">> \o PathName(profile_name) \o <<"/">>
                                 \o requirements[k].id
               /\ LocalId(members[k]) = requirements[k].id
  /\ TestsWritten =>
       LET members == documents[ConformanceClassFile].members
       IN /\ Len(members) = Len(tests)
          /\ \A k \in 1..Len(tests) :
               /\ members[k] = <<"/conf/">> \o PathName(profile_name) \o <<"/">>
                                 \o tests[k].id
               /\ LocalId(members[k]) = tests[k].id
  /\ (TestsWritten /\ TestsSynthesized) =>
       /\ Len(documents[ConformanceClassFile].members)
            = Len(documents[RequirementsClassFile].members)
       /\ \A k \in 1..Len(requirements) :
            LocalId(documents[ConformanceClassFile].members[k])
              = LocalId(documents[RequirementsClassFile].members[k])

\* both classes were written for synthesized tests of several requirements
\* with different ids
C14_Witness ==
  /\ pc = "tests_written"
  /\ TestsSynthesized
  /\ Len(requirements) >= 3
  /\ requirements[1].id # requirements[2].id
  /\ Len(documents[ConformanceClassFile].members) = Len(requirements)

(***************************************************************************)
(* C15.                                                                    *)
(***************************************************************************)
\* s with every '/' and every '-' replaced by '_'
Normalized(s) == Replace(Replace(s, "/", "_"), "-", "_")

NoSlashNoDash(s) == \A i \in 1..Len(s) : s[i] \notin {"/", "-"}

\* C15: the anchors of the requirement documents, of the test documents and
\* of the requirements class are req_, ats_ and req_class_ followed by
\* {profile_name}_{local_id} with every '/' and every '-' replaced by '_',
\* so they contain neither character.
C15_AnchorsNormalized ==
  /\ RequirementsWritten =>
       /\ \A k \in 1..Len(requirements) :
            LET anchor == documents[File("requirement", requirements[k].id)].anchor
            IN /\ anchor = Normalized(<<"r","e","q","_">> \o PathName(profile_name)
                                        \o <<"_">> \o requirements[k].id)
               /\ NoSlashNoDash(anchor)
       /\ LET anchor == documents[RequirementsClassFile].anchor
          IN /\ anchor = Normalized(<<"r","e","q","_","c","l","a","s","s","_">>
                                      \o PathName(profile_name) \o <<"_">> \o core)
             /\ NoSlashNoDash(anchor)
  /\ TestsWritten =>
       \A k \in 1..Len(tests) :
         LET anchor == documents[File("abstract_test", tests[k].id)].anchor
         IN /\ anchor = Normalized(<<"a","t","s","_">> \o PathName(profile_name)
                                     \o <<"_">> \o tests[k].id)
            /\ NoSlashNoDash(anchor)

(***************************************************************************)
(* C16.                                                                    *)
(***************************************************************************)
\* C16: the conformance-class anchor is ats_class- followed by the profile
\* name with dashes as underscores, an underscore and the class name with
\* dashes as underscores, so that its only dash is the one right after
\* ats_class.
C16_ConformanceAnchorOneDash ==
  TestsWritten =>
    LET anchor == documents[ConformanceClassFile].anchor
    IN /\ anchor = <<"a","t","s","_","c","l","a","s","s","-">>
                     \o Replace(PathName(profile_name), "-", "_")
                     \o <<"_">> \o Replace(core, "-", "_")
       /\ Occurrences(anchor, <<"-">>) = {10}

C18_FailsBeforeAnyArtifact ==
  pc = "failed" => (written = {} /\ documents = NoDocuments)

(***************************************************************************)
(* C19.                                                                    *)
(***************************************************************************)
\* the documents of one kind that have been written
DocumentsOf(kind) == {f \in DOMAIN documents : f.kind = kind}

\* C19: the bundle emitted from a loaded configuration satisfies the
\* invariants of a synthesized one: every test document has the id of the
\* requirement it targets, targets a requirement document of the bundle,
\* and every requirement document is targeted by exactly one test document.
C19_LoadedBundleInvariants ==
  (source = "loaded" /\ pc = "done") =>
    /\ \A t \in DocumentsOf("abstract_test") :
         /\ LocalId(documents[t].identifier) = LocalId(documents[t].target)
         /\ File("requirement", LocalId(documents[t].target))
              \in DocumentsOf("requirement")
    /\ \A r \in DocumentsOf("requirement") :
         Cardinality({t \in DocumentsOf("abstract_test") :
                        documents[t].target = documents[r].identifier}) = 1
    /\ Len(tests) = Len(requirements)

(***************************************************************************)
(* C20.                                                                    *)
(***************************************************************************)
\* the id begins with data-query-{qt}- for a registered query type qt
HasLeadingQueryPrefix(id) ==
  \E qt \in QueryTypeKeys : StartsWith(id, QueryPrefix(qt))

\* the token before the first dash of the id, the whole id without a dash
LeadingToken(id) ==
  IF \E i \in 1..Len(id) : id[i] = "-"
  THEN SubSeq(id, 1, (CHOOSE i \in 1..Len(id) :
                        id[i] = "-" /\ \A j \in 1..(i - 1) : id[j] # "-") - 1)
  ELSE id

\* C20: for every requirement whose id does not begin with
\* data-query-{qt}- for a registered qt, the steps of its test are the
\* fixed openapi, asyncapi or filters steps when the token before the first
\* dash of the id is one of those keys, and otherwise exactly three generic
\* steps, the first of which names the requirement id.
C20_FallbackByLeadingToken ==
  TestsGenerated =>
    \A k \in 1..Len(requirements) :
      LET id == requirements[k].id
      IN ~HasLeadingQueryPrefix(id) =>
           IF LeadingToken(id) \in test_template_keys
           THEN tests[k].steps = test_templates[LeadingToken(id)]
           ELSE /\ Len(tests[k].steps) = 3
                /\ tests[k].steps[1]
                     = <<"Verify requirement ">> \o id \o <<" is implemented">>

AddressNamedIn(part) == <<"collections/">> \o NameIn(part) \o <<"/items/#">>

\* C22: with the event API included, for every collection C the address
\* named in the asyncapi-{dash(C)} requirement is the address of the channel
\* C_notifications of the event API description, and the channel named in
\* the pub/sub extension of C's schema in the HTTP API description is
\* C_notifications, a key of the channels of the event API description.
C22_ChannelConsistency ==
  (pc = "asyncapi" /\ source = "suggested" /\ include_asyncapi) =>
    \A i \in 1..Len(collections) :
      LET C == collections[i].name
      IN /\ \E k \in 1..Len(requirements) :
              /\ requirements[k].id = AsyncapiPrefix \o Dash(C)
              /\ Len(requirements[k].parts) = 5
              /\ AddressNamedIn(requirements[k].parts[4])
                   = asyncapi.channels[ChannelKey(C)].address
         /\ openapi.schemas[SchemaKey(C)].pubsub.channel = ChannelKey(C)
         /\ openapi.schemas[SchemaKey(C)].pubsub.channel
              \in DOMAIN asyncapi.channels

(***************************************************************************)
(* C23.                                                                    *)
(***************************************************************************)
\* a part that says the service SHALL provide an endpoint
NamesEndpoint(part) ==
  part # << >> /\ part[1] = "The service SHALL provide a /collections/"

\* the wording that follows the collection name in such a part, with the
\* path suffix it spells
EndpointTails ==
  { [tail |-> <<" endpoint">>, suffix |-> << >>],
    [tail |-> <<"/items endpoint">>, suffix |-> <<"/items">>],
    [tail |-> <<"/items/", "{", "featureId", "}", " endpoint for individual items">>,
     suffix |-> <<"/items/", "{featureId}">>],
    [tail |-> <<"/locations endpoint">>, suffix |-> <<"/locations">>],
    [tail |-> <<"/position endpoint">>, suffix |-> <<"/">> \o position],
    [tail |-> <<"/area endpoint">>, suffix |-> <<"/">> \o area],
    [tail |-> <<"/cube endpoint">>, suffix |-> <<"/">> \o cube],
    [tail |-> <<"/trajectory endpoint">>, suffix |-> <<"/">> \o trajectory],
    [tail |-> <<"/corridor endpoint">>, suffix |-> <<"/">> \o corridor],
    [tail |-> <<"/instances endpoint">>, suffix |-> <<"/">> \o instances] }

EndsWith(s, tail) ==
  Len(s) >= Len(tail) /\ SubSeq(s, Len(s) - Len(tail) + 1, Len(s)) = tail

TailsOf(part) == {t \in EndpointTails : EndsWith(part, t.tail)}

\* the endpoint path a part names
PathNamedIn(part) ==
  LET t == CHOOSE t \in TailsOf(part) : TRUE
  IN <<"/collections/">> \o SubSeq(part, 2, Len(part) - Len(t.tail)) \o t.suffix

OpenapiBuilt == pc \in {"openapi", "asyncapi", "second"}

\* C23: every endpoint path that a synthesized requirement says the service
\* SHALL provide is a key of the paths create_openapi builds from the same
\* collections.
C23_RequiredPathsDocumented ==
  (OpenapiBuilt /\ source = "suggested") =>
    \A k \in 1..Len(requirements) :
      \A n \in 1..Len(requirements[k].parts) :
        LET part == requirements[k].parts[n]
        IN NamesEndpoint(part) =>
             /\ TailsOf(part) # {}
             /\ PathNamedIn(part) \in DOMAIN openapi.paths

\* the HTTP API description was built for an items collection whose
\* requirement names the single-item endpoint
C23_Witness ==
  /\ pc = "openapi"
  /\ source = "suggested"
  /\ IsItemsOnly
  /\ \E k \in 1..Len(requirements) :
       \E n \in 1..Len(requirements[k].parts) :
         /\ NamesEndpoint(requirements[k].parts[n])
         /\ PathNamedIn(requirements[k].parts[n]) = FeaturePath(collections[1].name)

(***************************************************************************)
(* C24.                                                                    *)
(***************************************************************************)
ConfigFile == File("config", <<"profile_config.yml">>)

\* every artifact main writes before the configuration snapshot
CompleteArtifactSet ==
  /\ \A k \in 1..Len(requirements) :
       File("requirement", requirements[k].id) \in written
  /\ RequirementsClassFile \in written
  /\ \A k \in 1..Len(tests) : File("abstract_test", tests[k].id) \in written
  /\ ConformanceClassFile \in written
  /\ File("openapi", <<"openapi.yaml">>) \in written
  /\ include_asyncapi => AsyncapiFile \in written
  /\ File("main_adoc", <<"profile.adoc">>) \in written
  /\ File("sections", <<"sections">>) \in written
  /\ File("supporting", <<"Makefile">>) \in written

\* C24: the configuration snapshot is written only after every requirement
\* file, the requirements class, every test file, the conformance class,
\* the HTTP API description, the event API description when included, the
\* documentation and the supporting files; a run that failed wrote no
\* snapshot, so a snapshot implies a complete artifact set.
C24_SnapshotLast ==
  /\ ConfigFile \in written => (pc = "done" /\ CompleteArtifactSet)
  /\ pc = "failed" => ConfigFile \notin written
  /\ pc \notin {"done"} => ConfigFile \notin written

\* a run with the event API and several requirements wrote its snapshot
C24_Witness ==
  /\ pc = "done"
  /\ ConfigFile \in written
  /\ include_asyncapi
  /\ Len(requirements) >= 2
  /\ Len(tests) >= 2

(***************************************************************************)
(* C25.                                                                    *)
(***************************************************************************)
\* the configuration in hand was returned by get_interactive_config
FromInteractiveConfig == pc # "main" /\ source \in {"suggested", "hand"}

\* C25: every configuration returned by get_interactive_config, with
\* suggested or hand-entered requirements and suggested or hand-entered
\* tests, has as many tests as requirements, tests[i].id = tests[i].req_id =
\* requirements[i].id for every i, and filters only with include_asyncapi.
C25_InteractiveConfigInvariants ==
  FromInteractiveConfig =>
    /\ Len(tests) = Len(requirements)
    /\ \A i \in 1..Len(tests) :
         /\ tests[i].id = requirements[i].id
         /\ tests[i].req_id = requirements[i].id
    /\ filters # <<>> => include_asyncapi

\* hand-entered tests for suggested requirements of a profile with filters
C25_Witness ==
  /\ pc = "config"
  /\ source = "suggested"
  /\ ~use_suggested_tests
  /\ include_asyncapi
  /\ filters # <<>>
  /\ Len(tests) >= 2

====
